---- MODULE Spec2Model ----
(***************************************************************************)
(* A model of ParallelStreams: Buffer (a byte region with get, put and     *)
(* mark cursors), BufferPool (a stack of recyclable Buffers), BufferFifo   *)
(* (a queue of filled Buffers with pushed/popped counters and an EOF flag) *)
(* and marked_fifo_streambuf (the sink / source endpoint).                 *)
(*                                                                         *)
(* The specifications share the variables:                                 *)
(*   SpecBuffer  one Buffer driven through its public operations;          *)
(*   Spec        sinks, sources and a coordinator on one BufferFifo, one   *)
(*               action per public endpoint operation;                     *)
(*   SpecFifo    threads inside BufferFifo::push, pop and empty, one       *)
(*               action per step on the shared queue, counters and flag:   *)
(*               two pushers, a popper and an observer of empty();         *)
(*   SpecShutdown  the same steps for two pushers and two poppers, under   *)
(*               the scheduler's weak fairness.                            *)
(***************************************************************************)
EXTENDS Integers, Sequences, FiniteSets, TLC

\* ------------------------------------------------------------------ bounds

\* bufferSize handed to BufferFifo(bufferSize, numBuffers): bytes per Buffer
BufSize == 3
\* numBuffers handed to BufferFifo(bufferSize, numBuffers): pool stack slots
NumBuffers == 2
\* sink operations (write, setMark, flush) explored in Spec
MaxOps == 4
\* push calls per pushing thread in SpecFifo
MaxPush == 1

Sinks == {"s1", "s2"}
Sources == {"r1"}
Endpoints == Sinks \cup Sources

\* the EOF value of <cstdio>, as passed to overflow(int c) and returned by underflow()
EOF == <<"EOF">>
\* a byte of no particular content (memory never written, which pbump exposes)
Junk == <<"junk", 0>>

Min(a, b) == IF a < b THEN a ELSE b

VARIABLES
    \* BufferFifo and its BufferPool
    queue, stack, bufferSize, allocCount, deallocCount, pushed, popped, _isEOF,
    totalReaders, closedReaders, totalWriters, closedWriters,
    \* the endpoints (marked_fifo_streambuf objects), by name
    ep,
    \* whether the build is known to have its assertions compiled out (NDEBUG),
    \* and whether a failed assertion or a bare throw has ended the process
    ndebug, aborted,
    \* history, kept for the properties: per sink the bytes accepted (wcount: its
    \* k-th byte is Byte(e, k)), where it marked (markPos), the bytes attempted since
    \* the last mark (regionAttempt), the bytes of regions that were attempted beyond
    \* a Buffer (tainted, everOversized) and the bytes an overflow copied forward
    \* (carried); the data of every Buffer enqueued and dequeued, in order; what each
    \* source read; the last write (with the Buffer it found); the sink operations
    \* so far
    wcount, markPos, regionAttempt, tainted, everOversized, carried, pushedLog,
    poppedLog, readLog, last, ops,
    \* SpecBuffer: the Buffer under test and its swap partner
    b, b2,
    \* SpecFifo: the threads inside push / pop
    th

fifoVars == <<queue, stack, bufferSize, allocCount, deallocCount, pushed, popped, _isEOF,
              totalReaders, closedReaders, totalWriters, closedWriters>>
histVars == <<wcount, markPos, regionAttempt, tainted, everOversized, carried, pushedLog,
              poppedLog, readLog, last, ops>>
bufVars == <<b, b2>>
vars == <<fifoVars, ep, ndebug, aborted, histVars, bufVars, th>>

\* ------------------------------------------------------------------ Buffer

\* A Buffer: data is the content of [_buf, _pptr), so put = Len(data);
\* get = _gptr - _buf; mark = _mark; cap = _capacity; id names the heap object.
NULL == [id |-> 0, data |-> <<>>, get |-> 0, mark |-> 0, cap |-> 0]

size(p) == Len(p.data)
capacity(p) == p.cap
getMark(p) == p.mark
premainder(p) == p.cap - size(p)
gremainder(p) == size(p) - p.get
markRemainder(p) == size(p) - p.mark
greturned(p) == p.get
getGetBufferUsed(p) == size(p) - p.get
getPutBufferUsed(p) == size(p)

validate(p) ==
    /\ p.id # 0
    /\ p.cap >= p.mark
    /\ p.cap >= size(p)
    /\ size(p) >= 0
    /\ p.mark >= 0
    /\ size(p) >= p.mark

gvalidate(p) == p.get >= 0 /\ p.get <= p.cap /\ size(p) - p.get >= 0

pvalidate(p) == size(p) >= 0 /\ size(p) <= p.cap

resize(p, newsize) ==
    IF newsize = p.cap THEN p
    ELSE IF p.get >= newsize \/ size(p) >= newsize THEN p
    ELSE [p EXCEPT !.cap = newsize]

\* Buffer(size): an empty region of `size` bytes
Buffer(id, sz) == resize([id |-> id, data |-> <<>>, get |-> 0, mark |-> 0, cap |-> 0], sz)

clear(p, mark) == [p EXCEPT !.get = 0, !.data = SubSeq(p.data, 1, mark), !.mark = mark]

empty_buffer(p) == p.get = 0 /\ size(p) = 0 /\ p.mark = 0

\* the number of bytes write accepts, and the Buffer after it
writeLen(p, src) == Min(Len(src), premainder(p))
write(p, src) == [p EXCEPT !.data = p.data \o SubSeq(src, 1, writeLen(p, src))]

\* the number of bytes read delivers, the bytes, and the Buffer after it
readLen(p, len) == Min(len, gremainder(p))
readBytes(p, len) == SubSeq(p.data, p.get + 1, p.get + readLen(p, len))
read(p, len) == [p EXCEPT !.get = p.get + readLen(p, len)]

\* setMark returns the bytes since the old mark and moves the mark to put
setMarkRet(p) == size(p) - p.mark
setMark_buffer(p) == [p EXCEPT !.mark = size(p)]

beginMark(p) == p.mark
\* the bytes of [beginMark, endMark)
markBytes(p) == SubSeq(p.data, p.mark + 1, size(p))

\* gbump / pbump / setg / setp: the Buffer after the assignment, and whether the
\* operation then throws (a bare `throw;` outside a handler ends the process)
gbump(p, bytes) == [p EXCEPT !.get = p.get + bytes]
gbumpThrows(p, bytes) == ~gvalidate(gbump(p, bytes))

pbumpThrows(p, bytes) == size(p) + bytes < 0 \/ size(p) + bytes > p.cap
pbump(p, bytes) ==
    IF pbumpThrows(p, bytes) THEN p
    ELSE IF bytes >= 0 THEN [p EXCEPT !.data = p.data \o [i \in 1..bytes |-> Junk]]
    ELSE [p EXCEPT !.data = SubSeq(p.data, 1, size(p) + bytes)]

\* setg(gbeg, gnext, gend), the pointers given as offsets from _buf
setg(p, gbeg, gnext, gend) == [p EXCEPT !.get = gnext]
setgThrows(p, gbeg, gnext, gend) ==
    gbeg # 0 \/ (gend # p.cap \/ gend # size(p)) \/ ~gvalidate(setg(p, gbeg, gnext, gend))

\* setp(new_pbase, new_epptr), the pointers given as offsets from _buf
setp(p, new_pbase, new_epptr) == [p EXCEPT !.data = <<>>]
setpThrows(p, new_pbase, new_epptr) ==
    new_pbase # 0 \/ new_epptr # p.cap \/ ~pvalidate(setp(p, new_pbase, new_epptr))

\* ------------------------------------------------------------------ state

\* The pipeline state as one record, so that a method that calls other methods is
\* the composition of their effects.
St == [queue |-> queue, stack |-> stack, bufferSize |-> bufferSize,
       allocCount |-> allocCount, deallocCount |-> deallocCount,
       pushed |-> pushed, popped |-> popped, isEOF |-> _isEOF,
       totalReaders |-> totalReaders, closedReaders |-> closedReaders,
       totalWriters |-> totalWriters, closedWriters |-> closedWriters,
       ep |-> ep, aborted |-> aborted,
       wcount |-> wcount, markPos |-> markPos, regionAttempt |-> regionAttempt,
       tainted |-> tainted, everOversized |-> everOversized, carried |-> carried,
       pushedLog |-> pushedLog, poppedLog |-> poppedLog, readLog |-> readLog,
       last |-> last]

Commit(S) ==
    /\ queue' = S.queue
    /\ stack' = S.stack
    /\ bufferSize' = S.bufferSize
    /\ allocCount' = S.allocCount
    /\ deallocCount' = S.deallocCount
    /\ pushed' = S.pushed
    /\ popped' = S.popped
    /\ _isEOF' = S.isEOF
    /\ totalReaders' = S.totalReaders
    /\ closedReaders' = S.closedReaders
    /\ totalWriters' = S.totalWriters
    /\ closedWriters' = S.closedWriters
    /\ ep' = S.ep
    /\ aborted' = S.aborted
    /\ wcount' = S.wcount
    /\ markPos' = S.markPos
    /\ regionAttempt' = S.regionAttempt
    /\ tainted' = S.tainted
    /\ everOversized' = S.everOversized
    /\ carried' = S.carried
    /\ pushedLog' = S.pushedLog
    /\ poppedLog' = S.poppedLog
    /\ readLog' = S.readLog
    /\ last' = S.last

NoOp == [op |-> "none", e |-> "", n |-> 0, ret |-> 0, error |-> FALSE, pre |-> NULL]

\* ------------------------------------------------------------------ BufferPool
\* (A method that calls other methods is written as a chain of operators, each
\* taking the state the previous call left.)

getBufferSize(S) == S.bufferSize

\* getNewBuffer: count the allocation, then build a Buffer of the current size
getNewBuffer(S) ==
    [st |-> [S EXCEPT !.allocCount = @ + 1],
     p  |-> Buffer(S.allocCount + 1, getBufferSize(S))]

\* getBuffer, its tail: a Buffer smaller than the pool's size is resized
getBuffer_resize(G) ==
    [st |-> G.st,
     p  |-> IF G.p # NULL /\ capacity(G.p) < getBufferSize(G.st)
            THEN resize(G.p, getBufferSize(G.st)) ELSE G.p]

\* getBuffer(wait_us, allocNew): pop the stack; a timed wait on an empty stack
\* that nobody pushes to during the call ends by timeout; then allocate, resize
getBuffer(S, wait_us, allocNew) ==
    getBuffer_resize(
        IF S.stack # <<>> THEN [st |-> [S EXCEPT !.stack = Tail(@)], p |-> Head(S.stack)]
        ELSE IF allocNew THEN getNewBuffer(S)
        ELSE [st |-> S, p |-> NULL])

\* a faulty returnBuffer that frees without counting (C12 is tested against it)
returnBuffer_uncounted(S, p, wait_us, allowGrowth) ==
    IF Len(S.stack) < NumBuffers \/ allowGrowth
    THEN [st |-> [S EXCEPT !.stack = <<clear(p, 0)>> \o @], ret |-> TRUE]
    ELSE [st |-> S, ret |-> FALSE]

\* returnBuffer(p, wait_us, allowGrowth): clear, bounded_push into the NumBuffers
\* slots (a timed wait that nobody pops during ends by timeout), grow if allowed,
\* else delete; ret says whether the stack took it
returnBuffer(S, p, wait_us, allowGrowth) ==
    IF Len(S.stack) < NumBuffers \/ allowGrowth
    THEN [st |-> [S EXCEPT !.stack = <<clear(p, 0)>> \o @], ret |-> TRUE]
    ELSE [st |-> [S EXCEPT !.deallocCount = @ + 1], ret |-> FALSE]

\* BufferPool::putBuffer is called by the endpoints but is not among the sources:
\* it is taken to be returnBuffer with its default arguments
putBuffer(S, p) == returnBuffer(S, p, 0, FALSE).st

\* ------------------------------------------------------------------ BufferFifo

\* wait_us default of BufferFifo::pop
PopWait == 1000

empty(S) == S.queue = <<>> /\ S.pushed = S.popped

\* a faulty isEOF that reports the flag alone (C8 is tested against it)
isEOF_flagOnly(S) == S.isEOF

isEOF(S) == S.isEOF /\ empty(S)

\* push, step by step: count the push, then enqueue (boost::lockfree::queue::push
\* allocates a node when none is free, so it succeeds), then null the caller's p
push_count(S) == [S EXCEPT !.pushed = @ + 1]
push_enqueue(S, p) ==
    [S EXCEPT !.queue = Append(@, p),
              !.pushedLog = Append(@, p.data)]
push(S, p) == push_enqueue(push_count(S), p)

\* pop, step by step: the loop test, the test before the attempt, the attempt,
\* the count after a success
pop_loopTest(S, ret) == ~ret /\ ~(S.isEOF /\ empty(S))
pop_attempts(S, wait_us) == wait_us = 0 \/ S.pushed > S.popped
\* a faulty dequeue that takes the newest Buffer (C2 is tested against it)
pop_dequeue_newest(S) ==
    IF S.queue # <<>>
    THEN [st |-> [S EXCEPT !.queue = SubSeq(@, 1, Len(@) - 1),
                           !.poppedLog = Append(@, S.queue[Len(S.queue)].data)],
          ret |-> TRUE, p |-> S.queue[Len(S.queue)]]
    ELSE [st |-> S, ret |-> FALSE, p |-> NULL]

pop_dequeue(S) ==
    IF S.queue # <<>>
    THEN [st |-> [S EXCEPT !.queue = Tail(@), !.poppedLog = Append(@, Head(S.queue).data)],
          ret |-> TRUE, p |-> Head(S.queue)]
    ELSE [st |-> S, ret |-> FALSE, p |-> NULL]
pop_count(S, ret) == IF ret THEN [S EXCEPT !.popped = @ + 1] ELSE S
pop_return(D) == [st |-> pop_count(D.st, D.ret), ret |-> D.ret, p |-> D.p]

\* pop run alone: it leaves the loop when EOF is set and the fifo is empty, when
\* an attempt succeeds, or, untimed, after one attempt; a timed pop whose attempt
\* fails (or is skipped) waits and tests again
popReturns(S, wait_us) ==
    \/ ~pop_loopTest(S, FALSE)
    \/ wait_us = 0
    \/ (pop_attempts(S, wait_us) /\ S.queue # <<>>)
pop(S, wait_us) ==
    IF pop_loopTest(S, FALSE) /\ pop_attempts(S, wait_us)
    THEN pop_return(pop_dequeue(S))
    ELSE [st |-> S, ret |-> FALSE, p |-> NULL]

setEOF(S) == [S EXCEPT !.isEOF = TRUE]

registerReader(S) == [S EXCEPT !.closedReaders = @ + 1]
deregisterReader(S) == [S EXCEPT !.totalReaders = @ + 1]
registerWriter(S) == [S EXCEPT !.totalWriters = @ + 1]
deregisterWriter(S) == [S EXCEPT !.closedWriters = @ + 1]
getWriterCount(S) == S.totalWriters
getActiveWriterCount(S) == S.totalWriters - S.closedWriters
getReaderCount(S) == S.totalReaders
getActiveReaderCount(S) == S.totalReaders - S.closedReaders

\* ------------------------------------------------------------------ marked_fifo_streambuf

\* the byte a sink writes as its k-th accepted byte
Byte(e, k) == <<e, k>>

setReadOnly(S, e) ==
    IF ~S.ep[e].readOnly THEN [registerReader(S) EXCEPT !.ep[e].readOnly = TRUE] ELSE S

\* a faulty setWriteOnly that registers at every call (C15 is tested against it)
setWriteOnly_everyCall(S, e) == [registerWriter(S) EXCEPT !.ep[e].writeOnly = TRUE]

setWriteOnly(S, e) ==
    IF ~S.ep[e].writeOnly THEN [registerWriter(S) EXCEPT !.ep[e].writeOnly = TRUE] ELSE S

\* marked_fifo_streambuf(bufFifo): take a Buffer from the pool
construct_adopt(G, e) ==
    [G.st EXCEPT !.ep[e] = [buf |-> G.p, prevBytes |-> 0, readOnly |-> FALSE,
                            writeOnly |-> FALSE, open |-> TRUE]]
construct(S, e) == construct_adopt(getBuffer(S, 0, TRUE), e)

\* overflow, after getBuffer gave G.p: with bytes past the mark, copy them into
\* the fresh Buffer and cut the old one at its mark; push the old one; adopt the
\* fresh one, and write c into it unless c is EOF
\* a faulty overflow that pushes the old Buffer with the bytes past its mark
\* still in it (C1 is tested against it)
overflow_old_keepsTail(G, e) == G.st.ep[e].buf

overflow_old(G, e) ==
    IF markRemainder(G.st.ep[e].buf) > 0
    THEN clear(G.st.ep[e].buf, getMark(G.st.ep[e].buf))
    ELSE G.st.ep[e].buf
\* a faulty overflow that goes on with the Buffer it has pushed (C18 is tested
\* against it)
overflow_next_keepsOld(G, e, c) == G.st.ep[e].buf

overflow_next(G, e, c) ==
    IF markRemainder(G.st.ep[e].buf) > 0
    THEN write(G.p, markBytes(G.st.ep[e].buf) \o (IF c # EOF THEN <<c>> ELSE <<>>))
    ELSE (IF c # EOF THEN write(G.p, <<c>>) ELSE G.p)
overflow_push(G, e, c) ==
    [push([G.st EXCEPT !.ep[e].prevBytes = @ + size(overflow_old(G, e))], overflow_old(G, e))
     EXCEPT !.ep[e].buf = overflow_next(G, e, c),
            !.carried[e] = @ \cup {k \in 1..G.st.wcount[e] :
                                     k > G.st.wcount[e] - markRemainder(G.st.ep[e].buf)}]

\* overflow(c): take a fresh Buffer from the pool, then the above
overflow(S, e, c) == overflow_push(getBuffer(setWriteOnly(S, e), 0, TRUE), e, c)

\* setMark(flush): mark the in-flight Buffer; overflow on flush or when the region
\* just closed is at least as long as the space left
setMark_overflow(S1, e, do) == IF do THEN overflow(S1, e, EOF) ELSE S1
setMark(S, e, flush) ==
    setMark_overflow(
        [S EXCEPT !.ep[e].buf = setMark_buffer(@),
                  !.markPos[e] = @ \cup {S.wcount[e]},
                  !.regionAttempt[e] = 0],
        e,
        flush \/ setMarkRet(S.ep[e].buf) >= premainder(setMark_buffer(S.ep[e].buf)))

\* the position of the last mark of sink e in the bytes it wrote
lastMarkPos(S, e) ==
    IF S.markPos[e] = {} THEN 0
    ELSE CHOOSE m \in S.markPos[e] : \A k \in S.markPos[e] : k <= m

\* xsputn, its end: Buffer::write copies what fits of the n bytes, and its
\* assert(len == _len) ends the process when the build checks assertions
\* (asserts); pre is the in-flight Buffer as the call found it
xsputn_src(S, e, n) == [i \in 1..n |-> Byte(e, S.wcount[e] + i)]
xsputn_len(S, e, n) == writeLen(S.ep[e].buf, xsputn_src(S, e, n))
xsputn_write(S2, pre, e, n, error, asserts) ==
    [S2 EXCEPT !.ep[e].buf = write(@, xsputn_src(S2, e, n)),
               !.aborted = (xsputn_len(S2, e, n) # n /\ asserts),
               !.wcount[e] = @ + xsputn_len(S2, e, n),
               !.regionAttempt[e] = @ + n,
               !.everOversized[e] = @ \/ (S2.regionAttempt[e] + n > capacity(pre)),
               !.tainted[e] =
                   IF S2.regionAttempt[e] + n > capacity(pre)
                   THEN @ \cup (lastMarkPos(S2, e) + 1 .. S2.wcount[e] + xsputn_len(S2, e, n))
                   ELSE @,
               !.last = [op |-> "write", e |-> e, n |-> n, ret |-> xsputn_len(S2, e, n),
                         error |-> error, pre |-> pre]]

\* xsputn, the test: a write that does not fit overflows first when a committed
\* region is in the Buffer and n fits a Buffer, else it logs the error
xsputn_overflows(p, n) == n > premainder(p) /\ getMark(p) > 0 /\ n <= capacity(p)
xsputn_logsError(p, n) == n > premainder(p) /\ ~(getMark(p) > 0 /\ n <= capacity(p))
xsputn_test(S1, e, n, asserts) ==
    xsputn_write(
        IF xsputn_overflows(S1.ep[e].buf, n) THEN overflow(S1, e, EOF) ELSE S1,
        S1.ep[e].buf, e, n, xsputn_logsError(S1.ep[e].buf, n), asserts)

\* xsputn(s, n)
xsputn(S, e, n, asserts) == xsputn_test(setWriteOnly(S, e), e, n, asserts)

\* underflow, after pop: on success the old Buffer goes to the pool and the
\* popped one is adopted; else the exhausted Buffer stays
underflow_adopt(P, e) ==
    IF P.ret
    THEN [putBuffer([P.st EXCEPT !.ep[e].prevBytes = @ + size(P.st.ep[e].buf)],
                    P.st.ep[e].buf)
          EXCEPT !.ep[e].buf = P.p]
    ELSE P.st

\* underflow(): pop the next Buffer, then the above
underflow(S, e) == underflow_adopt(pop(setReadOnly(S, e), PopWait), e)

\* what underflow returns: EOF when the in-flight Buffer has nothing to read,
\* else its first unread byte
underflow_ret(S2, e) ==
    IF gremainder(S2.ep[e].buf) = 0 THEN EOF
    ELSE S2.ep[e].buf.data[S2.ep[e].buf.get + 1]

\* sync(): a sink marks and flushes; a source with nothing left to read underflows
sync_read(S1, e) ==
    IF S1.ep[e].readOnly /\ gremainder(S1.ep[e].buf) = 0 THEN underflow(S1, e) ELSE S1
\* a faulty sync that marks and flushes whatever the role (C7 is tested against it)
sync_marksAlways(S, e) == sync_read(setMark(S, e, TRUE), e)

sync(S, e) == sync_read(IF S.ep[e].writeOnly THEN setMark(S, e, TRUE) ELSE S, e)

\* whether sync() returns: its underflow sits in pop until pop returns
syncReturns(S, e) ==
    (S.ep[e].readOnly /\ gremainder(S.ep[e].buf) = 0) => popReturns(S, PopWait)

\* showmanyc(): the bytes left to read
showmanyc(S, e) == gremainder(S.ep[e].buf)

\* xsgetn(s, n): read from the in-flight Buffer only
xsgetn_read(S1, e, n) ==
    [S1 EXCEPT !.ep[e].buf = read(@, n),
               !.readLog[e] = @ \o readBytes(S1.ep[e].buf, n),
               !.last = NoOp]
xsgetn(S, e, n) == xsgetn_read(setReadOnly(S, e), e, n)

\* marked_istream::isReady(block = false): in_avail() asks showmanyc(); with
\* nothing to read it calls sync()
isReady_sync(S1, e) == IF showmanyc(S1, e) > 0 THEN S1 ELSE sync(S1, e)
isReady(S, e) == isReady_sync(setReadOnly(S, e), e)

\* ~marked_fifo_streambuf(): sync, leave the census, hand the Buffer to the pool
destructor_put(S3, e) ==
    [putBuffer(S3, S3.ep[e].buf) EXCEPT !.ep[e].buf = NULL, !.ep[e].open = FALSE]
destructor_writer(S2, e) ==
    destructor_put(IF S2.ep[e].writeOnly THEN deregisterWriter(S2) ELSE S2, e)
destructor_reader(S1, e) ==
    destructor_writer(IF S1.ep[e].readOnly THEN deregisterReader(S1) ELSE S1, e)
\* a faulty destructor that does not sync (C13 is tested against it)
destructor_withoutSync(S, e) == destructor_reader(S, e)

destructor(S, e) == destructor_reader(sync(S, e), e)

\* ------------------------------------------------------------------ Init

\* the order in which the endpoints are constructed
EndpointOrder == <<"s1", "s2", "r1">>

NoEndpoint == [buf |-> NULL, prevBytes |-> 0, readOnly |-> FALSE, writeOnly |-> FALSE,
               open |-> FALSE]

\* BufferFifo(bufferSize, numBuffers): an empty queue, an empty pool stack of
\* numBuffers slots, all counters 0, no EOF
BufferFifo_ctor ==
    [queue |-> <<>>, stack |-> <<>>, bufferSize |-> BufSize,
     allocCount |-> 0, deallocCount |-> 0, pushed |-> 0, popped |-> 0, isEOF |-> FALSE,
     totalReaders |-> 0, closedReaders |-> 0, totalWriters |-> 0, closedWriters |-> 0,
     ep |-> [e \in Endpoints |-> NoEndpoint], aborted |-> FALSE,
     wcount |-> [e \in Endpoints |-> 0], markPos |-> [e \in Endpoints |-> {}],
     regionAttempt |-> [e \in Endpoints |-> 0], tainted |-> [e \in Endpoints |-> {}],
     everOversized |-> [e \in Endpoints |-> FALSE], carried |-> [e \in Endpoints |-> {}],
     pushedLog |-> <<>>, poppedLog |-> <<>>, readLog |-> [e \in Endpoints |-> <<>>],
     last |-> NoOp]

RECURSIVE constructAll(_, _)
constructAll(S, i) ==
    IF i > Len(EndpointOrder) THEN S
    ELSE constructAll(construct(S, EndpointOrder[i]), i + 1)

InitFrom(S) ==
    /\ queue = S.queue
    /\ stack = S.stack
    /\ bufferSize = S.bufferSize
    /\ allocCount = S.allocCount
    /\ deallocCount = S.deallocCount
    /\ pushed = S.pushed
    /\ popped = S.popped
    /\ _isEOF = S.isEOF
    /\ totalReaders = S.totalReaders
    /\ closedReaders = S.closedReaders
    /\ totalWriters = S.totalWriters
    /\ closedWriters = S.closedWriters
    /\ ep = S.ep
    /\ aborted = S.aborted
    /\ wcount = S.wcount
    /\ markPos = S.markPos
    /\ regionAttempt = S.regionAttempt
    /\ tainted = S.tainted
    /\ everOversized = S.everOversized
    /\ carried = S.carried
    /\ pushedLog = S.pushedLog
    /\ poppedLog = S.poppedLog
    /\ readLog = S.readLog
    /\ last = S.last

\* the BufferFifo and the endpoints constructed, nothing written, the build open
InitPipeline ==
    /\ InitFrom(constructAll(BufferFifo_ctor, 1))
    /\ ndebug = FALSE
    /\ ops = 0

Init ==
    /\ InitPipeline
    /\ b = NULL
    /\ b2 = NULL
    /\ th = <<>>

\* ------------------------------------------------------------------ Spec: the pipeline

\* os.write(s, n) on sink e
\* a build either checks assertions or not: the first assertion that fails
\* settles which, and then it stays so
Builds == IF ndebug THEN {FALSE} ELSE BOOLEAN

Write_commit(S, n, asserts) ==
    /\ Commit(S)
    /\ ndebug' = (ndebug \/ (S.last.ret # n /\ ~asserts))
Write(e, n) ==
    /\ ~aborted /\ ep[e].open /\ ops < MaxOps
    /\ \E asserts \in Builds : Write_commit(xsputn(St, e, n, asserts), n, asserts)
    /\ ops' = ops + 1
    /\ UNCHANGED <<bufVars, th>>

\* os.setMark() on sink e, which asserts that e has written
Mark(e) ==
    /\ ~aborted /\ ep[e].open /\ ops < MaxOps
    /\ ep[e].writeOnly
    /\ Commit([setMark(St, e, FALSE) EXCEPT !.last = NoOp])
    /\ ops' = ops + 1
    /\ UNCHANGED <<ndebug, bufVars, th>>

\* os.flush() on sink e: pubsync() calls sync()
Flush(e) ==
    /\ ~aborted /\ ep[e].open /\ ops < MaxOps
    /\ Commit([sync(St, e) EXCEPT !.last = NoOp])
    /\ ops' = ops + 1
    /\ UNCHANGED <<ndebug, bufVars, th>>

\* is.read(s, n) on source e
Read(e, n) ==
    /\ ~aborted /\ ep[e].open
    /\ Commit(xsgetn(St, e, n))
    /\ UNCHANGED <<ndebug, ops, bufVars, th>>

\* is.isReady() on source e; it returns when its pop returns
IsReady(e) ==
    /\ ~aborted /\ ep[e].open
    /\ gremainder(ep[e].buf) = 0 => popReturns(St, PopWait)
    /\ Commit([isReady(St, e) EXCEPT !.last = NoOp])
    /\ UNCHANGED <<ndebug, ops, bufVars, th>>

\* the endpoint is destroyed; the destructor returns when its sync returns
Close(e) ==
    /\ ~aborted /\ ep[e].open
    /\ syncReturns(St, e)
    /\ Commit([destructor(St, e) EXCEPT !.last = NoOp])
    /\ UNCHANGED <<ndebug, ops, bufVars, th>>

\* the coordinator calls bfifo.setEOF()
SetEOF ==
    /\ ~aborted /\ ~_isEOF
    /\ Commit([setEOF(St) EXCEPT !.last = NoOp])
    /\ UNCHANGED <<ndebug, ops, bufVars, th>>

WriteLens == 1..(BufSize + 1)
ReadLens == {1, BufSize}

Next ==
    \/ \E e \in Sinks, n \in WriteLens : Write(e, n)
    \/ \E e \in Sinks : Mark(e)
    \/ \E e \in Sinks : Flush(e)
    \/ \E e \in Sources, n \in ReadLens : Read(e, n)
    \/ \E e \in Sources : IsReady(e)
    \/ \E e \in Endpoints : Close(e)
    \/ SetEOF

Spec == Init /\ [][Next]_vars

\* ------------------------------------------------------------------ properties of Spec

Range(s) == {s[i] : i \in 1..Len(s)}

\* the bytes sink e has had accepted, in the order written
Written(e) == [k \in 1..wcount[e] |-> Byte(e, k)]

\* the bytes of s that sink e wrote, in the order of s
FromSink(s, e) == SelectSeq(s, LAMBDA x : x[1] = e)

\* the logical regions of sink e, each <<lo, hi>>: its bytes lo..hi lie between
\* two consecutive marks (or the start and the first mark)
Regions(e) ==
    {r \in (1..wcount[e]) \X (1..wcount[e]) :
        /\ r[1] <= r[2]
        /\ r[2] \in markPos[e]
        /\ r[1] = 1 \/ (r[1] - 1) \in markPos[e]
        /\ \A k \in r[1]..(r[2] - 1) : k \notin markPos[e]}

\* the byte sequence d holds region r of sink e whole and contiguous
HoldsWhole(d, e, r) ==
    \E off \in 0..(Len(d) - (r[2] - r[1] + 1)) :
        \A j \in 0..(r[2] - r[1]) : d[off + j + 1] = Byte(e, r[1] + j)

\* the pushed Buffers that hold a byte of region r of sink e
PushedWith(e, r) ==
    {i \in 1..Len(pushedLog) : \E k \in r[1]..r[2] : Byte(e, k) \in Range(pushedLog[i])}

AllSinksClosed == \A e \in Sinks : ~ep[e].open

\* C1: for a sink none of whose regions was attempted beyond the Buffer capacity,
\* every region (the bytes between two consecutive marks) has bytes in at most one
\* pushed Buffer, that Buffer holds it whole and contiguous, and a region not yet
\* pushed lies whole in the sink's in-flight Buffer.
C1_RegionAtomicity ==
    \A e \in Sinks :
        ~everOversized[e] =>
            \A r \in Regions(e) :
                /\ Cardinality(PushedWith(e, r)) <= 1
                /\ \A i \in PushedWith(e, r) : HoldsWhole(pushedLog[i], e, r)
                /\ PushedWith(e, r) = {} =>
                       (ep[e].open /\ HoldsWhole(ep[e].buf.data, e, r))

\* a region that an overflow carried forward in part has been pushed
C1_Witness ==
    \E e \in Sinks :
        /\ ~everOversized[e]
        /\ \E r \in Regions(e) :
               /\ r[2] > r[1]
               /\ \E k \in r[1]..r[2] : k \in carried[e]
               /\ PushedWith(e, r) # {}

\* every sink is destroyed, setEOF was called, the queue is empty and every
\* source has read its in-flight Buffer to the end
Drained ==
    /\ _isEOF
    /\ AllSinksClosed
    /\ queue = <<>>
    /\ \A r \in Sources : ep[r].open /\ gremainder(ep[r].buf) = 0

\* C2: when the sinks have written, marked and closed, setEOF was called and the
\* source has read everything, then for each sink the bytes the source read from
\* it are the bytes the sink had accepted, in the order written.
C2_RoundTrip ==
    Drained => \A e \in Sinks : \A r \in Sources : FromSink(readLog[r], e) = Written(e)

\* a completed round trip in which every sink wrote and several Buffers travelled
C2_Witness ==
    /\ Drained
    /\ \A e \in Sinks : wcount[e] > 0
    /\ Len(poppedLog) >= 3

\* a write of n bytes into p cannot be accommodated
CannotAccommodate(p, n) == n > capacity(p) \/ (n > premainder(p) /\ getMark(p) = 0)

\* C3: a sink write that cannot be accommodated signals the oversized-message
\* error and leaves the in-flight Buffer (cursors and contents) as it found it.
C3_OversizedWriteLeavesBuffer ==
    (last.op = "write" /\ CannotAccommodate(last.pre, last.n)) =>
        (last.error /\ ep[last.e].buf = last.pre)

\* C4: a write that takes the bytes since the last mark beyond the Buffer capacity
\* reports the oversized-message error, and no byte of a region so attempted is in
\* any Buffer pushed to the fifo.
C4_NoSilentSplit ==
    /\ (last.op = "write" /\ markRemainder(last.pre) + last.n > capacity(last.pre)) =>
           last.error
    /\ \A e \in Sinks : \A i \in 1..Len(pushedLog) :
           \A k \in tainted[e] : Byte(e, k) \notin Range(pushedLog[i])

\* C7: once setEOF has been called, no step adds a Buffer to the queue or
\* increases pushed.
C7_NoPushAfterEOF ==
    [][_isEOF => (pushed' = pushed /\ Len(queue') <= Len(queue))]_vars

\* C7, as the code has it: once setEOF has been called and every sink has been
\* destroyed, no step adds a Buffer to the queue or increases pushed.
C7_NoPushAfterEOFAndClose ==
    [][(_isEOF /\ AllSinksClosed) => (pushed' = pushed /\ Len(queue') <= Len(queue))]_vars

\* after setEOF and the destruction of every sink, a source has gone on to pop
C7_Witness == _isEOF /\ AllSinksClosed /\ pushed > 1 /\ popped > 0 /\ queue # <<>>

\* C8: after all sinks have closed and setEOF was called, isEOF() is true only
\* when the queue holds no Buffer and no source's in-flight Buffer has unread bytes.
C8_EOFOnlyAfterDataRead ==
    (AllSinksClosed /\ isEOF(St)) =>
        (queue = <<>> /\ \A r \in Sources : ep[r].open => gremainder(ep[r].buf) = 0)

\* C8, as the code has it: after all sinks have closed and setEOF was called,
\* isEOF() is true only when every Buffer pushed has been popped, in the order
\* pushed; the popping source may still hold unread bytes.
C8_EOFOnlyAfterAllPopped ==
    (AllSinksClosed /\ isEOF(St)) => (queue = <<>> /\ poppedLog = pushedLog)

\* isEOF() is true while the source still holds unread bytes of the last Buffer
C8_Witness ==
    /\ AllSinksClosed /\ isEOF(St)
    /\ Len(pushedLog) >= 2
    /\ \E r \in Sources : ep[r].open /\ gremainder(ep[r].buf) > 0

\* every sink and every source is destroyed, setEOF was called, the queue is empty
Terminated ==
    /\ _isEOF
    /\ \A e \in Endpoints : ~ep[e].open
    /\ queue = <<>>

Pushed(e, k) == \E i \in 1..Len(pushedLog) : Byte(e, k) \in Range(pushedLog[i])

\* C13: when a sink is destroyed with bytes written past its last mark, none of
\* those bytes is pushed to the fifo, by the destruction or before.
C13_CloseAbandonsTail ==
    [][\A e \in Sinks :
          (ep[e].open /\ ~ep'[e].open) =>
              \A k \in (lastMarkPos(St, e) + 1)..wcount[e] :
                  \A i \in 1..Len(pushedLog') : Byte(e, k) \notin Range(pushedLog'[i])]_vars

\* C13, as the code has it: the destructor's sync() marks and flushes, so once a
\* sink is destroyed every byte it had accepted, those past its last mark
\* included, is in a Buffer that was pushed.
C13_CloseDeliversTail ==
    \A e \in Sinks : ~ep[e].open => \A k \in 1..wcount[e] : Pushed(e, k)

\* a sink that wrote once and never marked or flushed is destroyed, and the one
\* Buffer pushed holds what it wrote
C13_Witness ==
    \E e \in Sinks :
        /\ ~ep[e].open /\ ops = 1 /\ wcount[e] > 1
        /\ pushedLog = <<Written(e)>>

\* the sources that have been used as a source (and so have registered), and
\* those of them not yet destroyed
RegisteredReaders == {e \in Sources : ep[e].readOnly}
ActiveReaders == {e \in RegisteredReaders : ep[e].open}

\* C14: getReaderCount() is the number of sources that have registered, and
\* getActiveReaderCount() the number of sources registered and not yet
\* destroyed, hence never negative.
C14_ReaderCensus ==
    /\ getReaderCount(St) = Cardinality(RegisteredReaders)
    /\ getActiveReaderCount(St) = Cardinality(ActiveReaders)
    /\ getActiveReaderCount(St) >= 0

\* the sinks that have written (a write was attempted since the last mark, or a
\* mark was set, which only a sink that has written does), and those of them
\* not yet destroyed
HasWritten(e) == regionAttempt[e] > 0 \/ markPos[e] # {}
ActiveWriters == {e \in Sinks : HasWritten(e) /\ ep[e].open}

\* C15: getWriterCount() is the number of sinks that have written, and
\* getActiveWriterCount() the number of sinks that have written and are not yet
\* destroyed: each registers once, at its first write, and deregisters once, at
\* its destruction; the count is 0 once every sink is destroyed.
C15_WriterCensus ==
    /\ getWriterCount(St) = Cardinality({e \in Sinks : HasWritten(e)})
    /\ getActiveWriterCount(St) = Cardinality(ActiveWriters)
    /\ AllSinksClosed => getActiveWriterCount(St) = 0

\* a sink that has written twice is still open, another that has written is
\* destroyed
C15_Witness ==
    /\ getActiveWriterCount(St) = 1
    /\ \E e \in ActiveWriters : wcount[e] > 1 /\ markPos[e] # {} /\ regionAttempt[e] > 0
    /\ \E e \in Sinks : HasWritten(e) /\ ~ep[e].open

\* the places where a Buffer is: a slot of the pool stack, a slot of the FIFO
\* queue, the _buf of an endpoint; each with the Buffer found there
Places ==
    {<<"stack", i, stack[i].id>> : i \in 1..Len(stack)}
        \cup {<<"queue", i, queue[i].id>> : i \in 1..Len(queue)}
        \cup {<<"endpoint", e, ep[e].buf.id>> : e \in {x \in Endpoints : ep[x].buf # NULL}}

\* C18: each live Buffer is in exactly one place, the pool stack, the FIFO queue
\* or the hands of one endpoint (no Buffer is in two places, and as many places
\* are taken as Buffers are allocated and not freed); between its operations
\* every endpoint holds a Buffer, and holds none once it is destroyed.
C18_SingleOwnership ==
    /\ \A x, y \in Places : x[3] = y[3] => x = y
    /\ Cardinality(Places) = allocCount - deallocCount
    /\ \A e \in Endpoints : ep[e].open <=> ep[e].buf # NULL

\* a Buffer has gone from a sink through the queue to the source, the source's
\* former Buffer is back in the pool, and another Buffer waits in the queue
C18_Witness ==
    /\ popped > 0
    /\ queue # <<>>
    /\ stack # <<>>
    /\ \E e \in Sources : ep[e].open /\ size(ep[e].buf) > 0
    /\ \E e \in Sinks : ep[e].open

\* C22: the FIFO queue never holds more Buffers than the numBuffers given to the
\* BufferFifo constructor, however many sinks push and however slow the sources.
C22_BoundedFifo == Len(queue) <= NumBuffers

\* source e can call underflow() and the call returns: it has nothing left to
\* read and the pop inside does not wait for ever
CanUnderflow(e) ==
    /\ ~aborted /\ ep[e].open
    /\ gremainder(ep[e].buf) = 0
    /\ popReturns(St, PopWait)

\* C23: underflow returns EOF only when the FIFO has EOF set and is empty; when
\* its pop succeeds it adopts the popped Buffer, the source then has bytes to
\* read, and it returns the first unread byte of that Buffer.
C23_UnderflowEOFOnlyAtEOF ==
    \A e \in Sources : CanUnderflow(e) =>
        /\ underflow_ret(underflow(St, e), e) = EOF => (_isEOF /\ empty(St))
        /\ pop(setReadOnly(St, e), PopWait).ret =>
              /\ underflow(St, e).ep[e].buf = Head(queue)
              /\ gremainder(underflow(St, e).ep[e].buf) > 0
              /\ underflow_ret(underflow(St, e), e) = Head(queue).data[1]

\* BufferPool::getOutstanding, BufferFifo::getOutstanding
getOutstanding(S) == S.allocCount - S.deallocCount

\* _warningThreshold as the constructor sets it
InitialWarningThreshold == 4

\* a faulty getWaitForBuffer whose wait grows with the square (C24 is tested
\* against it)
getWaitForBuffer_square(S, warningThreshold) ==
    [wait_us |-> IF ~S.isEOF /\ getOutstanding(S) > NumBuffers
                 THEN (10 * getOutstanding(S) * getOutstanding(S)) \div (NumBuffers * NumBuffers)
                 ELSE 0,
     warningThreshold |-> warningThreshold]

\* getWaitForBuffer(): the wait and _warningThreshold after the call.  The
\* quotient is computed in double and converted to long, which drops the
\* fraction; the operands here are exact in a double.  _initialPoolCapacity is
\* NumBuffers
getWaitForBuffer(S, warningThreshold) ==
    [wait_us |-> IF ~S.isEOF /\ getOutstanding(S) > NumBuffers
                 THEN (10 * getOutstanding(S) * getOutstanding(S) * getOutstanding(S))
                          \div (NumBuffers * NumBuffers * NumBuffers)
                 ELSE 0,
     warningThreshold |-> IF /\ ~S.isEOF /\ getOutstanding(S) > NumBuffers
                             /\ getOutstanding(S) > warningThreshold * NumBuffers
                          THEN 2 * warningThreshold ELSE warningThreshold]

\* floor(10 * outstanding^3 / initialPoolCapacity^3)
WaitFormula(outstanding, initialPoolCapacity) ==
    CHOOSE w \in 0..(10 * outstanding * outstanding * outstanding) :
        /\ w * initialPoolCapacity * initialPoolCapacity * initialPoolCapacity
              <= 10 * outstanding * outstanding * outstanding
        /\ (w + 1) * initialPoolCapacity * initialPoolCapacity * initialPoolCapacity
              > 10 * outstanding * outstanding * outstanding

\* C24: getWaitForBuffer returns 0 whenever outstanding <= initialPoolCapacity
\* and floor(10 * outstanding^3 / initialPoolCapacity^3) whenever outstanding >
\* initialPoolCapacity, in every state of the FIFO.
C24_WaitFormula ==
    getWaitForBuffer(St, InitialWarningThreshold).wait_us
        = IF getOutstanding(St) <= NumBuffers THEN 0
          ELSE WaitFormula(getOutstanding(St), NumBuffers)

\* C24, as the code has it: getWaitForBuffer returns 0 whenever EOF has been set
\* or outstanding <= initialPoolCapacity, and floor(10 * outstanding^3 /
\* initialPoolCapacity^3) otherwise.
C24_WaitFormulaBeforeEOF ==
    getWaitForBuffer(St, InitialWarningThreshold).wait_us
        = IF _isEOF \/ getOutstanding(St) <= NumBuffers THEN 0
          ELSE WaitFormula(getOutstanding(St), NumBuffers)

\* both cases of the formula have been met: Buffers beyond the capacity with a
\* wait that is not a whole quotient, and, elsewhere, none beyond it
C24_Witness ==
    /\ ~_isEOF
    /\ pushed > 0
    /\ getOutstanding(St) = NumBuffers + 1
    /\ getWaitForBuffer(St, InitialWarningThreshold).wait_us
          = WaitFormula(NumBuffers + 1, NumBuffers)
    /\ (10 * getOutstanding(St) * getOutstanding(St) * getOutstanding(St))
          % (NumBuffers * NumBuffers * NumBuffers) # 0

\* C25: every Buffer in the FIFO queue has get = 0 and mark = put: it holds no
\* bytes past its last mark and has not been read from (here also when a write
\* was cut short).
C25_QueuedBuffersAreCommitted ==
    \A i \in 1..Len(queue) : queue[i].get = 0 /\ queue[i].mark = size(queue[i])

\* a Buffer is queued that an overflow cut at its mark, the tail carried on to
\* the Buffer queued behind it
C25_Witness ==
    /\ ~aborted
    /\ Len(queue) >= 2
    /\ \E e \in Sinks : carried[e] # {} /\ markPos[e] # {}
    /\ \A i \in 1..Len(queue) : size(queue[i]) > 0

\* C27: destroying a source leaves the FIFO queue and the popped counter as they
\* were; no Buffer leaves the queue because a source was closed.
C27_CloseSourceConsumesNothing ==
    [][\A e \in Sources : (ep[e].open /\ ~ep'[e].open) =>
           (queue' = queue /\ popped' = popped)]_vars

\* ------------------------------------------------------------------ SpecBuffer: one Buffer

\* Two Buffers as Buffer(size) constructs them; the operations are applied to b,
\* and swap exchanges b and b2.
InitBuffer ==
    /\ InitPipeline
    /\ b = Buffer(1, BufSize)
    /\ b2 = Buffer(2, BufSize)
    /\ th = <<>>

pipeVars == <<fifoVars, ep, histVars, th>>

\* what b.write(src, n) is given: n bytes of no particular content
B_src(n) == [i \in 1..n |-> Junk]

\* b.write(src, n), n > 0 as asserted
B_write_commit(n, asserts) ==
    /\ b' = write(b, B_src(n))
    /\ aborted' = (writeLen(b, B_src(n)) # n /\ asserts)
    /\ ndebug' = (ndebug \/ (writeLen(b, B_src(n)) # n /\ ~asserts))
B_write(n) ==
    /\ ~aborted /\ validate(b)
    /\ \E asserts \in Builds : B_write_commit(n, asserts)
    /\ UNCHANGED <<b2, pipeVars>>

\* b.read(dst, len), len >= 0
B_read(len) ==
    /\ ~aborted /\ validate(b) /\ gremainder(b) >= 0
    /\ b' = read(b, len)
    /\ UNCHANGED <<b2, ndebug, aborted, pipeVars>>

B_setMark ==
    /\ ~aborted /\ validate(b)
    /\ b' = setMark_buffer(b)
    /\ UNCHANGED <<b2, ndebug, aborted, pipeVars>>

\* b.clear(mark), mark <= size() as asserted
B_clear(mark) ==
    /\ ~aborted /\ validate(b)
    /\ mark <= size(b)
    /\ b' = clear(b, mark)
    /\ UNCHANGED <<b2, ndebug, aborted, pipeVars>>

B_resize(newsize) ==
    /\ ~aborted /\ validate(b)
    /\ b' = resize(b, newsize)
    /\ UNCHANGED <<b2, ndebug, aborted, pipeVars>>

B_swap ==
    /\ ~aborted
    /\ b' = [b2 EXCEPT !.id = b.id]
    /\ b2' = [b EXCEPT !.id = b2.id]
    /\ UNCHANGED <<ndebug, aborted, pipeVars>>

\* b.gbump(bytes): a throw ends the process
B_gbump(bytes) ==
    /\ ~aborted /\ validate(b)
    /\ b' = gbump(b, bytes)
    /\ aborted' = gbumpThrows(b, bytes)
    /\ UNCHANGED <<b2, ndebug, pipeVars>>

B_pbump(bytes) ==
    /\ ~aborted /\ validate(b)
    /\ b' = pbump(b, bytes)
    /\ aborted' = pbumpThrows(b, bytes)
    /\ UNCHANGED <<b2, ndebug, pipeVars>>

B_setg(gbeg, gnext, gend) ==
    /\ ~aborted /\ validate(b)
    /\ b' = setg(b, gbeg, gnext, gend)
    /\ aborted' = setgThrows(b, gbeg, gnext, gend)
    /\ UNCHANGED <<b2, ndebug, pipeVars>>

B_setp(new_pbase, new_epptr) ==
    /\ ~aborted
    /\ b' = setp(b, new_pbase, new_epptr)
    /\ aborted' = setpThrows(b, new_pbase, new_epptr)
    /\ UNCHANGED <<b2, ndebug, pipeVars>>

Offsets == 0..(BufSize + 1)
Bumps == -1..2

NextBuffer ==
    \/ \E n \in 1..(BufSize + 1) : B_write(n)
    \/ \E len \in 0..BufSize : B_read(len)
    \/ B_setMark
    \/ \E mark \in 0..BufSize : B_clear(mark)
    \/ \E newsize \in Offsets : B_resize(newsize)
    \/ B_swap
    \/ \E bytes \in Bumps : B_gbump(bytes)
    \/ \E bytes \in Bumps : B_pbump(bytes)
    \/ \E gbeg \in {0, 1}, gnext \in Offsets, gend \in Offsets : B_setg(gbeg, gnext, gend)
    \/ \E new_pbase \in {0, 1}, new_epptr \in Offsets : B_setp(new_pbase, new_epptr)

SpecBuffer == InitBuffer /\ [][NextBuffer]_vars

\* the cursors of p are in order: 0 <= get <= put <= capacity, 0 <= mark <= put
CursorsInOrder(p) ==
    /\ 0 <= p.get /\ p.get <= size(p) /\ size(p) <= p.cap
    /\ 0 <= p.mark /\ p.mark <= size(p)

\* C5: after any sequence of public Buffer operations that returned normally the
\* Buffer satisfies 0 <= get <= put <= capacity and 0 <= mark <= put.
C5_CursorInvariant == ~aborted => (CursorsInOrder(b) /\ CursorsInOrder(b2))

\* ------------------------------------------------------------------ SpecFifo: threads in push, pop, empty

\* Threads that call BufferFifo directly: pushers (each a registered writer that
\* pushes up to MaxPush Buffers and then deregisters), poppers (each calls pop
\* with wait_us 0 or the default, again and again), an observer that calls
\* empty(), and the coordinator that calls setEOF(). In SpecFifo one popper
\* runs beside the observer; in SpecShutdown both poppers run.
Pushers == {"p1", "p2"}
Poppers == {"c1", "c2"}
FifoPoppers == {"c1"}
Observers == {"o1"}
Threads == Pushers \cup Poppers \cup Observers

\* a thread outside any call. pc is its position; n its pushes so far; wait, ret
\* are pop's wait_us and ret; caller, first, val belong to a running empty(): who
\* called it, which counter it loaded first and the value loaded. For the
\* properties: wit (the fifo was empty, with pushed = popped, at some moment of
\* the running empty()), expired (a timed wait of the running pop ended at its
\* deadline) and start (what the running pop found when it was called)
Idle == [pc |-> "idle", n |-> 0, wait |-> 0, ret |-> FALSE, caller |-> "", first |-> "",
         val |-> 0, wit |-> FALSE, expired |-> FALSE, start |-> ""]

\* the Buffer a pusher hands to its n-th push: one byte in a Buffer of its own
PushedBuffer(t, n) == write(Buffer(n, BufSize), <<Byte(t, n)>>)

RECURSIVE registerWriters(_, _)
registerWriters(S, k) == IF k = 0 THEN S ELSE registerWriters(registerWriter(S), k - 1)

InitFifo ==
    /\ InitFrom(registerWriters(BufferFifo_ctor, Cardinality(Pushers)))
    /\ ndebug = FALSE
    /\ ops = 0
    /\ b = NULL
    /\ b2 = NULL
    /\ th = [t \in Threads |-> Idle]

\* a running empty() of the observer remembers whether the fifo has been empty
Track(T, S) ==
    [t \in DOMAIN T |->
        IF T[t].caller = "observer" /\ T[t].pc \in {"empty_q", "empty_c1", "empty_c2"}
        THEN [T[t] EXCEPT !.wit = @ \/ empty(S)]
        ELSE T[t]]

\* one step: the shared state becomes S, the threads T
Step(S, T) ==
    /\ Commit(S)
    /\ th' = Track(T, S)
    /\ UNCHANGED <<ndebug, ops, bufVars>>

\* push: _pushed++
PushCount(t) ==
    /\ th[t].pc = "idle" /\ th[t].n < MaxPush
    /\ Step(push_count(St), [th EXCEPT ![t].pc = "push_enqueue", ![t].n = @ + 1])

\* push: _queue->push(p), which succeeds, then the notify and the return
PushEnqueue(t) ==
    /\ th[t].pc = "push_enqueue"
    /\ Step(push_enqueue(St, PushedBuffer(t, th[t].n)), [th EXCEPT ![t].pc = "idle"])

\* the pusher is done: deregisterWriter()
PusherDone(t) ==
    /\ th[t].pc = "idle"
    /\ Step(deregisterWriter(St), [th EXCEPT ![t].pc = "done"])

\* what a pop finds when called: the fifo before shutdown ("open"), shut down
\* with Buffers left ("draining"), or shut down and empty ("terminal")
pop_start(S) ==
    IF ~(S.isEOF /\ getActiveWriterCount(S) = 0) THEN "open"
    ELSE IF empty(S) THEN "terminal" ELSE "draining"

\* pop(p, wait_us) is called: ret = false
PopCall(t, wait_us) ==
    /\ th[t].pc = "idle"
    /\ Step(St, [th EXCEPT ![t] = [Idle EXCEPT !.pc = "pop_loop", !.wait = wait_us,
                                              !.start = pop_start(St)]])

\* a faulty loop test that does not look at _isEOF (C9 is tested against it)
pop_afterLoopTest_ignoresEOF(ret, eof) == IF ret THEN "pop_exit" ELSE "pop_chk"

\* pop, the loop test !ret && !(_isEOF && empty()): where it leads, given ret and
\* _isEOF; with _isEOF set it calls empty()
pop_afterLoopTest(ret, eof) ==
    IF ret THEN "pop_exit" ELSE IF eof THEN "empty_q" ELSE "pop_chk"

PopLoop(t) ==
    /\ th[t].pc = "pop_loop"
    /\ Step(St, [th EXCEPT ![t].pc = pop_afterLoopTest(th[t].ret, _isEOF),
                           ![t].caller = "pop"])

\* the observer calls empty()
EmptyCall(t) ==
    /\ th[t].pc = "idle"
    /\ Step(St, [th EXCEPT ![t] = [Idle EXCEPT !.pc = "empty_q", !.caller = "observer"]])

\* empty() returns r: to pop's loop test, which leaves the loop on true, or to
\* the observer
empty_return(T, t, r) ==
    IF T[t].caller = "pop"
    THEN [T EXCEPT ![t].pc = IF r THEN "pop_exit" ELSE "pop_chk",
                   ![t].first = "", ![t].val = 0]
    ELSE [T EXCEPT ![t].pc = "empty_ret", ![t].ret = r, ![t].first = "", ![t].val = 0]

\* empty(): _queue->empty(), false ending the && at once
EmptyQueue(t) ==
    /\ th[t].pc = "empty_q"
    /\ Step(St, IF queue # <<>> THEN empty_return(th, t, FALSE)
                ELSE [th EXCEPT ![t].pc = "empty_c1"])

\* empty(): _pushed == _popped loads the two counters one after the other, in an
\* order the build chooses; this is the first load
empty_load(S, which) == IF which = "pushed" THEN S.pushed ELSE S.popped
EmptyFirst(t, which) ==
    /\ th[t].pc = "empty_c1"
    /\ Step(St, [th EXCEPT ![t].pc = "empty_c2", ![t].first = which,
                           ![t].val = empty_load(St, which)])

\* empty(): the second load and the comparison
empty_second(first) == IF first = "pushed" THEN "popped" ELSE "pushed"
EmptySecond(t) ==
    /\ th[t].pc = "empty_c2"
    /\ Step(St, empty_return(th, t, th[t].val = empty_load(St, empty_second(th[t].first))))

\* the observer has its answer
EmptyRet(t) ==
    /\ th[t].pc = "empty_ret"
    /\ Step(St, [th EXCEPT ![t] = Idle])

\* pop: if (wait_us == 0 || _pushed > _popped); when the attempt is skipped,
\* ret is still false and a timed pop waits, an untimed one leaves the loop
pop_afterFailure(wait_us) == IF wait_us > 0 THEN "pop_wait" ELSE "pop_exit"
PopCheck(t) ==
    /\ th[t].pc = "pop_chk"
    /\ Step(St, [th EXCEPT ![t].pc = IF pop_attempts(St, th[t].wait) THEN "pop_try"
                                     ELSE pop_afterFailure(th[t].wait)])

\* pop: ret = _queue->pop(p); then if (wait_us > 0 && !ret) wait, else break
PopTry(t) ==
    /\ th[t].pc = "pop_try"
    /\ Step(pop_dequeue(St).st,
            [th EXCEPT ![t].ret = pop_dequeue(St).ret,
                       ![t].pc = IF pop_dequeue(St).ret THEN "pop_exit"
                                 ELSE pop_afterFailure(th[t].wait)])

\* pop: _pushCond.timed_wait(l, start + wait_us) returns, on a notify, spuriously
\* or (byDeadline) at its deadline, which is fixed when pop is called and so stays
\* passed; the result of timed_wait is discarded and the loop tests again
PopWait_return(T, t, byDeadline) ==
    [T EXCEPT ![t].pc = "pop_loop", ![t].expired = @ \/ byDeadline]
PopWaitStep(t, byDeadline) ==
    /\ th[t].pc = "pop_wait"
    /\ Step(St, PopWait_return(th, t, byDeadline))

\* pop: if (ret) _popped++; return ret
PopExit(t) ==
    /\ th[t].pc = "pop_exit"
    /\ Step(pop_count(St, th[t].ret), [th EXCEPT ![t] = Idle])

\* the coordinator calls setEOF(): the step at which its store to _isEOF, a
\* plain bool, is visible to the other threads
FifoSetEOF ==
    /\ ~_isEOF
    /\ Step(setEOF(St), th)

\* the steps of popper t inside a call of pop
PopRun(t) ==
    \/ PopLoop(t)
    \/ EmptyQueue(t)
    \/ \E which \in {"pushed", "popped"} : EmptyFirst(t, which)
    \/ EmptySecond(t)
    \/ PopCheck(t)
    \/ PopTry(t)
    \/ \E byDeadline \in BOOLEAN : PopWaitStep(t, byDeadline)
    \/ PopExit(t)

NextFifo ==
    \/ \E t \in Pushers : PushCount(t)
    \/ \E t \in Pushers : PushEnqueue(t)
    \/ \E t \in Pushers : PusherDone(t)
    \/ \E t \in FifoPoppers, wait_us \in {0, PopWait} : PopCall(t, wait_us)
    \/ \E t \in FifoPoppers : PopRun(t)
    \/ \E t \in Observers : EmptyCall(t)
    \/ \E t \in Observers : EmptyQueue(t)
    \/ \E t \in Observers, which \in {"pushed", "popped"} : EmptyFirst(t, which)
    \/ \E t \in Observers : EmptySecond(t)
    \/ \E t \in Observers : EmptyRet(t)
    \/ FifoSetEOF

SpecFifo == InitFifo /\ [][NextFifo]_vars

\* C6: in every state of every interleaving of push, pop and empty calls,
\* popped <= pushed and pushed - popped is at least the number of queued Buffers;
\* and every empty() that returns true ran through a moment at which no Buffer
\* was queued and every push that had started was matched by a pop.
C6_CountersAndEmpty ==
    /\ popped <= pushed
    /\ pushed - popped >= Len(queue)
    /\ \A t \in Observers : (th[t].pc = "empty_ret" /\ th[t].ret) => th[t].wit

\* C10: a pop called with wait_us > 0 on a fifo that nothing is pushed to and
\* on which setEOF is not called is, once a wait of it has ended at its deadline,
\* not in the loop body again: it neither attempts nor waits any more.
C10_TimedPopBounded ==
    \A t \in Poppers :
        (th[t].expired /\ ~_isEOF /\ pushed = 0) =>
            th[t].pc \notin {"pop_chk", "pop_try", "pop_wait"}

\* ------------------------------------------------------------------ SpecShutdown

NextShutdown ==
    \/ \E t \in Pushers : PushCount(t)
    \/ \E t \in Pushers : PushEnqueue(t)
    \/ \E t \in Pushers : PusherDone(t)
    \/ \E t \in Poppers, wait_us \in {0, PopWait} : PopCall(t, wait_us)
    \/ \E t \in Poppers : PopRun(t)
    \/ FifoSetEOF

\* every thread inside pop keeps being scheduled, and a timed wait returns
SpecShutdown == InitFifo /\ [][NextShutdown]_vars /\ \A t \in Poppers : WF_vars(PopRun(t))

InPop(t) == th[t].pc # "idle"
Shutdown == _isEOF /\ getActiveWriterCount(St) = 0

ReadySinks == {"s1"}

InitReady ==
    /\ InitPipeline
    /\ b = NULL
    /\ b2 = NULL
    /\ th = [e \in Sources |-> [pc |-> "idle", ret |-> FALSE]]

\* the test of isReady's if and of its while: !fifo.isEOF() && in_avail() == 0
isReady_blocks(S, e) == ~isEOF(S) /\ showmanyc(S, e) = 0

\* the sync() inside the while runs with fifo.getPopMutex() locked by isReady;
\* its underflow calls pop, and pop locks _popMutex, the same mutex, as soon as
\* it has to wait: when it neither leaves the loop nor takes a Buffer
isReady_relocks(S, e) ==
    S.ep[e].readOnly /\ gremainder(S.ep[e].buf) = 0 /\ ~popReturns(S, PopWait)

\* is.read(s, n) between two calls of isReady
ReadyRead(e, n) ==
    /\ th[e].pc = "idle"
    /\ ~aborted /\ ep[e].open
    /\ Commit(xsgetn(St, e, n))
    /\ UNCHANGED <<ndebug, ops, bufVars, th>>

\* isReady(true) is called: if (rdbuf()->in_avail() > 0) return true; else sync()
ReadyCall(e) ==
    /\ th[e].pc = "idle"
    /\ ~aborted /\ ep[e].open
    /\ Commit([setReadOnly(St, e) EXCEPT !.last = NoOp])
    /\ th' = [th EXCEPT ![e].pc = IF showmanyc(St, e) > 0 THEN "return" ELSE "sync"]
    /\ UNCHANGED <<ndebug, ops, bufVars>>

\* after a sync() that left S: the if / while test decides between the locked
\* wait and the return
ReadyAfterSync(S, e, pc) ==
    /\ Commit([S EXCEPT !.last = NoOp])
    /\ th' = [th EXCEPT ![e].pc = IF isReady_blocks(S, e) THEN pc ELSE "return"]

\* the first sync(), with no mutex held: it returns when its pop returns; then
\* if (block) and the test hold, isReady locks fifo.getPopMutex()
ReadySync(e) ==
    /\ th[e].pc = "sync"
    /\ ~aborted
    /\ syncReturns(St, e)
    /\ ReadyAfterSync(sync(St, e), e, "locked")
    /\ UNCHANGED <<ndebug, ops, bufVars>>

\* the while, its test failing: unlock and go to the return
ReadyLoopExit(e) ==
    /\ th[e].pc = "locked"
    /\ ~aborted
    /\ ~isReady_blocks(St, e)
    /\ th' = [th EXCEPT ![e].pc = "return"]
    /\ UNCHANGED <<fifoVars, ep, ndebug, aborted, histVars, bufVars>>

\* the while, one round: timed_wait(l, 50 ms) returns with the mutex locked
\* again, then sync()
ReadyWait(e) ==
    /\ th[e].pc = "locked"
    /\ ~aborted
    /\ isReady_blocks(St, e)
    /\ ~isReady_relocks(St, e)
    /\ ReadyAfterSync(sync(St, e), e, "locked")
    /\ UNCHANGED <<ndebug, ops, bufVars>>

\* the while, one round in which pop has to wait: the thread locks the
\* boost::mutex it already owns, which is undefined: it waits for itself for
\* ever, or lock() throws and nothing catches it
ReadyRelock(e, throws) ==
    /\ th[e].pc = "locked"
    /\ ~aborted
    /\ isReady_blocks(St, e)
    /\ isReady_relocks(St, e)
    /\ th' = [th EXCEPT ![e].pc = "relock"]
    /\ aborted' = throws
    /\ UNCHANGED <<fifoVars, ep, ndebug, histVars, bufVars>>

\* return rdbuf()->in_avail() > 0
ReadyReturn(e) ==
    /\ th[e].pc = "return"
    /\ ~aborted
    /\ th' = [th EXCEPT ![e] = [pc |-> "idle", ret |-> showmanyc(St, e) > 0]]
    /\ UNCHANGED <<fifoVars, ep, ndebug, aborted, histVars, bufVars>>

NextReady ==
    \/ \E e \in ReadySinks, n \in WriteLens : Write(e, n)
    \/ \E e \in ReadySinks : Mark(e)
    \/ \E e \in ReadySinks : Flush(e)
    \/ \E e \in ReadySinks : Close(e)
    \/ SetEOF
    \/ \E e \in Sources, n \in ReadLens : ReadyRead(e, n)
    \/ \E e \in Sources : ReadyCall(e)
    \/ \E e \in Sources : ReadySync(e)
    \/ \E e \in Sources : ReadyLoopExit(e)
    \/ \E e \in Sources : ReadyWait(e)
    \/ \E e \in Sources, throws \in BOOLEAN : ReadyRelock(e, throws)
    \/ \E e \in Sources : ReadyReturn(e)

SpecReady == InitReady /\ [][NextReady]_vars

\* C11: a source thread inside isReady(block = true) never comes to wait for a
\* lock that it cannot get (it never deadlocks), whatever the sinks do, also when
\* it has popped a Buffer that holds no bytes and the queue is then empty.
C11_BlockingIsReadyNeverDeadlocks == \A e \in Sources : th[e].pc # "relock"

\* ------------------------------------------------------------------ SpecSize: setBufferSize
\* Threads inside BufferFifo::setBufferSize / BufferPool::setBufferSize, one
\* action per access to the atomic _bufferSize.

\* calls per thread
MaxCalls == 2
\* the bufferSize handed to the constructor, and the sizes requested later
InitialSizes == {64, 100}
RequestSizes == {50, 100, 128}
Setters == {"t1", "t2"}

MaxOf(X) == CHOOSE x \in X : \A y \in X : y <= x

\* BufferFifo(bufferSize, numBuffers): the pool gets bufferSize as it is
BufferFifo_ctorSized(size_) == [BufferFifo_ctor EXCEPT !.bufferSize = size_]

\* newSizeCeil = (newsize + 63) & ~((Size) 63), for newsize >= 0
setBufferSize_ceil(newsize) == (newsize + 63) - ((newsize + 63) % 64)

\* a faulty loop test that also lets a smaller size through (C16 is tested against it)
setBufferSize_test_unequal(newSize, oldSize) == newSize # oldSize
\* the first operand of the while: newSize > oldSize
setBufferSize_test(newSize, oldSize) == newSize > oldSize

\* a thread outside setBufferSize.  newSize, oldSize: the locals of
\* BufferPool::setBufferSize; calls: calls made; requested: the sizes handed to
\* BufferPool::setBufferSize; asked: the sizes handed to BufferFifo::setBufferSize;
\* direct: it has called the pool's setBufferSize itself; retried: a
\* compare_exchange of its found another value than it expected
IdleSetter == [pc |-> "idle", newSize |-> 0, oldSize |-> 0, calls |-> 0, requested |-> {},
               asked |-> {}, direct |-> FALSE, retried |-> FALSE]

\* _initialBufferSize is kept beside the threads
InitSize ==
    /\ \E n \in InitialSizes :
          /\ InitFrom(BufferFifo_ctorSized(n))
          /\ th = [t \in Setters \cup {"fifo"} |->
                     IF t = "fifo" THEN [_initialBufferSize |-> n] ELSE IdleSetter]
    /\ ndebug = FALSE
    /\ ops = 0
    /\ b = NULL
    /\ b2 = NULL

SizeStep(T, size_) ==
    /\ th' = T
    /\ bufferSize' = size_
    /\ UNCHANGED <<queue, stack, allocCount, deallocCount, pushed, popped, _isEOF,
                   totalReaders, closedReaders, totalWriters, closedWriters,
                   ep, ndebug, aborted, histVars, bufVars>>

\* BufferPool::setBufferSize(newSize) up to its first statement, oldSize = load()
setBufferSize_enter(t, newSize) ==
    [th EXCEPT ![t].pc = "test", ![t].newSize = newSize, ![t].oldSize = bufferSize,
               ![t].calls = @ + 1, ![t].requested = @ \cup {newSize}]

\* BufferFifo::setBufferSize(n): rounds, then calls the pool's
SizeCallFifo(t, n) ==
    /\ th[t].pc = "idle"
    /\ th[t].calls < MaxCalls
    /\ SizeStep([setBufferSize_enter(t, setBufferSize_ceil(n)) EXCEPT ![t].asked = @ \cup {n}],
                bufferSize)

\* getBufferPool().setBufferSize(n)
SizeCallPool(t, n) ==
    /\ th[t].pc = "idle"
    /\ th[t].calls < MaxCalls
    /\ SizeStep([setBufferSize_enter(t, n) EXCEPT ![t].direct = TRUE], bufferSize)

\* the while's first operand; false ends the call
SizeTest(t) ==
    /\ th[t].pc = "test"
    /\ SizeStep([th EXCEPT ![t].pc = IF setBufferSize_test(th[t].newSize, th[t].oldSize)
                                      THEN "cas" ELSE "idle"], bufferSize)

\* compare_exchange_weak(oldSize, newSize): stores newSize if _bufferSize is
\* oldSize (and may fail all the same, being weak); a failure loads _bufferSize
\* into oldSize and the body of the while follows
SizeCas(t, spurious) ==
    /\ th[t].pc = "cas"
    /\ IF bufferSize = th[t].oldSize /\ ~spurious
       THEN SizeStep([th EXCEPT ![t].pc = "idle"], th[t].newSize)
       ELSE SizeStep([th EXCEPT ![t].pc = "reload", ![t].oldSize = bufferSize,
                                ![t].retried = @ \/ bufferSize # th[t].oldSize], bufferSize)

\* the body of the while: oldSize = _bufferSize.load()
SizeReload(t) ==
    /\ th[t].pc = "reload"
    /\ SizeStep([th EXCEPT ![t].pc = "test", ![t].oldSize = bufferSize], bufferSize)

NextSize ==
    \/ \E t \in Setters, n \in RequestSizes : SizeCallFifo(t, n)
    \/ \E t \in Setters, n \in RequestSizes : SizeCallPool(t, n)
    \/ \E t \in Setters : SizeTest(t)
    \/ \E t \in Setters, spurious \in BOOLEAN : SizeCas(t, spurious)
    \/ \E t \in Setters : SizeReload(t)

SpecSize == InitSize /\ [][NextSize]_vars

AllReturned == \A t \in Setters : th[t].pc = "idle"
Requested == UNION {th[t].requested : t \in Setters}
Asked == UNION {th[t].asked : t \in Setters}

\* C16: under any interleaving of BufferPool::setBufferSize calls bufferSize
\* never decreases, and when all calls have returned it is the maximum of the
\* value it had before and of all the sizes requested.
C16_MonotoneBufferSize ==
    /\ [][bufferSize' >= bufferSize]_vars
    /\ [](AllReturned => bufferSize = MaxOf({th["fifo"]._initialBufferSize} \cup Requested))

\* two calls with different sizes have raced (a compare_exchange found the
\* other's store), all have returned, and bufferSize is the larger request
C16_Witness ==
    /\ AllReturned
    /\ \E t \in Setters : th[t].retried
    /\ \E t, u \in Setters : \E n \in th[t].requested, m \in th[u].requested :
          t # u /\ n < m /\ bufferSize = m

\* C17: after the constructor, and after any sequence of
\* BufferFifo::setBufferSize(n) calls, getBufferSize() is a multiple of 64 and at
\* least every size requested so far.
C17_SizeMultipleOf64 ==
    (AllReturned /\ \A t \in Setters : ~th[t].direct) =>
        /\ getBufferSize(St) % 64 = 0
        /\ \A n \in Asked \cup {th["fifo"]._initialBufferSize} : getBufferSize(St) >= n

\* ------------------------------------------------------------------ SpecPool: the BufferPool
\* Threads inside BufferPool::getBuffer / returnBuffer, one action per access to
\* the lock-free stack, beside a thread that raises the buffer size.

\* getBuffer and returnBuffer calls per thread
MaxPoolCalls == 3
\* capacity handed to BufferPool(capacity, bufferSize): the stack's nodes
PoolCapacity == 1
\* the wait_us arguments: none, some
PoolWaits == {0, PopWait}
\* the sizes setBufferSize is called with
PoolSizes == {BufSize + 1}
Holders == {"h1", "h2"}

\* a thread outside the pool's methods.  hand: the Buffer it owns; p: the local p
\* of getBuffer, the reference p of returnBuffer; wait, flag: wait_us and
\* allocNew / allowGrowth of the call; ret: what returnBuffer returned; op: the
\* last call; start: bufferSize when the call began; seen: the stack held a Buffer
\* at one of the call's pops; resized: getBuffer resized
IdleHolder == [pc |-> "idle", hand |-> NULL, p |-> NULL, wait |-> 0, flag |-> FALSE,
               ret |-> FALSE, op |-> "none", start |-> 0, seen |-> FALSE, resized |-> FALSE,
               calls |-> 0]

\* BufferPool(capacity, bufferSize): the stack gets `capacity` nodes; nodes is the
\* number of nodes the stack owns, growth whether a returnBuffer was allowed to grow
InitPool ==
    /\ InitFrom(BufferFifo_ctor)
    /\ th = [t \in Holders \cup {"pool"} |->
               IF t = "pool" THEN [nodes |-> PoolCapacity, growth |-> FALSE] ELSE IdleHolder]
    /\ ndebug = FALSE
    /\ ops = 0
    /\ b = NULL
    /\ b2 = NULL

PoolStep(S, T) ==
    /\ Commit(S)
    /\ th' = T
    /\ UNCHANGED <<ndebug, ops, bufVars>>

\* _stack->pop(p): p is left alone when the stack is empty
getBuffer_pop(S, p) ==
    IF S.stack # <<>> THEN [st |-> [S EXCEPT !.stack = Tail(@)], p |-> Head(S.stack)]
    ELSE [st |-> S, p |-> p]

\* a faulty test that never finds a Buffer stale (C19 is tested against it)
getBuffer_stale_never(S, p) == FALSE
\* p != NULL && p->capacity() < getBufferSize()
getBuffer_stale(S, p) == p # NULL /\ capacity(p) < getBufferSize(S)

\* after a pop attempt of getBuffer made at pc: on to the allocation, or to the wait
getBuffer_afterPop(G, t, wait_us) ==
    [th EXCEPT ![t].p = G.p,
               ![t].seen = @ \/ stack # <<>>,
               ![t].pc = IF G.p = NULL /\ wait_us > 0 THEN "get_wait" ELSE "get_alloc"]

\* getBuffer(wait_us, allocNew): entry and if (_stack->pop(p))
PoolGetCall(t, wait_us, allocNew) ==
    /\ th[t].pc = "idle"
    /\ th[t].hand = NULL
    /\ th[t].calls < MaxPoolCalls
    /\ PoolStep(getBuffer_pop(St, NULL).st,
                [getBuffer_afterPop(getBuffer_pop(St, NULL), t, wait_us)
                   EXCEPT ![t].wait = wait_us, ![t].flag = allocNew, ![t].op = "get",
                          ![t].start = getBufferSize(St), ![t].seen = stack # <<>>,
                          ![t].resized = FALSE, ![t].ret = FALSE, ![t].calls = @ + 1])

\* the timed loop of getBuffer: a pop that succeeds, or the timeout that breaks
PoolGetWait(t, timeout) ==
    /\ th[t].pc = "get_wait"
    /\ stack # <<>> \/ timeout
    /\ PoolStep(getBuffer_pop(St, NULL).st,
                [getBuffer_afterPop(getBuffer_pop(St, NULL), t, 0) EXCEPT ![t].pc = "get_alloc"])

\* if (p == NULL && allocNew) p = getNewBuffer()
PoolGetAlloc(t) ==
    /\ th[t].pc = "get_alloc"
    /\ IF th[t].p = NULL /\ th[t].flag
       THEN PoolStep(getNewBuffer(St).st,
                     [th EXCEPT ![t].p = getNewBuffer(St).p, ![t].pc = "get_test"])
       ELSE PoolStep(St, [th EXCEPT ![t].pc = "get_test"])

\* getBuffer returns p to the caller; the locals are gone
getBuffer_return(t, p, resized) ==
    [th EXCEPT ![t] = [IdleHolder EXCEPT !.hand = p, !.op = "get", !.resized = resized,
                                         !.calls = th[t].calls]]

\* if (p != NULL && p->capacity() < getBufferSize()), else return p
PoolGetTest(t) ==
    /\ th[t].pc = "get_test"
    /\ IF getBuffer_stale(St, th[t].p)
       THEN PoolStep(St, [th EXCEPT ![t].pc = "get_resize"])
       ELSE PoolStep(St, getBuffer_return(t, th[t].p, FALSE))

\* p->resize(getBufferSize()); return p
PoolGetResize(t) ==
    /\ th[t].pc = "get_resize"
    /\ PoolStep(St, getBuffer_return(t, resize(th[t].p, getBufferSize(St)), TRUE))

\* the owner of a Buffer writes a byte, reads it, marks
PoolUse(t, kind) ==
    /\ th[t].pc = "idle"
    /\ th[t].hand # NULL
    /\ \/ /\ kind = "write" /\ size(th[t].hand) = 0
          /\ PoolStep(St, [th EXCEPT ![t].hand = write(@, <<Byte(t, 1)>>)])
       \/ /\ kind = "read" /\ gremainder(th[t].hand) > 0
          /\ PoolStep(St, [th EXCEPT ![t].hand = read(@, 1)])
       \/ /\ kind = "mark" /\ markRemainder(th[t].hand) > 0
          /\ PoolStep(St, [th EXCEPT ![t].hand = setMark_buffer(@)])

\* a faulty push that puts the Buffer back as it is (C20 is tested against it)
returnBuffer_take_uncleared(S, p) == [S EXCEPT !.stack = <<p>> \o @]
\* the Buffer on the stack: the caller has cleared it (p->clear())
returnBuffer_take(S, p) == [S EXCEPT !.stack = <<clear(p, 0)>> \o @]

\* _stack->bounded_push(p): succeeds while the stack has a free node
returnBuffer_bounded(S, p, nodes) ==
    IF Len(S.stack) < nodes
    THEN [st |-> returnBuffer_take(S, p), ret |-> TRUE]
    ELSE [st |-> S, ret |-> FALSE]

\* delete p; p = NULL; _deallocCount++
returnBuffer_delete(S) == [S EXCEPT !.deallocCount = @ + 1]

\* returnBuffer returns: ret, and the reference as it leaves it
returnBuffer_return(t, ret) ==
    [th EXCEPT ![t] = [IdleHolder EXCEPT !.ret = ret, !.op = "return", !.calls = th[t].calls,
                                         !.p = IF ret THEN th[t].p ELSE NULL]]

\* returnBuffer(p, wait_us, allowGrowth): entry (the caller's Buffer is p now)
PoolReturnCall(t, wait_us, allowGrowth) ==
    /\ th[t].pc = "idle"
    /\ th[t].hand # NULL
    /\ th[t].calls < MaxPoolCalls
    /\ PoolStep(St, [th EXCEPT ![t].pc = "ret_push", ![t].p = th[t].hand, ![t].hand = NULL,
                               ![t].wait = wait_us, ![t].flag = allowGrowth,
                               ![t].op = "return", ![t].ret = FALSE, ![t].calls = @ + 1,
                               !["pool"].growth = @ \/ allowGrowth])

\* p->clear(); bool ret = _stack->bounded_push(p)
PoolReturnPush(t) ==
    /\ th[t].pc = "ret_push"
    /\ IF returnBuffer_bounded(St, th[t].p, th["pool"].nodes).ret
       THEN PoolStep(returnBuffer_bounded(St, th[t].p, th["pool"].nodes).st,
                     returnBuffer_return(t, TRUE))
       ELSE PoolStep(St, [th EXCEPT ![t].pc = IF th[t].wait > 0 THEN "ret_wait" ELSE "ret_end"])

\* the timed loop of returnBuffer: a bounded_push that succeeds, or the timeout
PoolReturnWait(t, timeout) ==
    /\ th[t].pc = "ret_wait"
    /\ IF returnBuffer_bounded(St, th[t].p, th["pool"].nodes).ret
       THEN PoolStep(returnBuffer_bounded(St, th[t].p, th["pool"].nodes).st,
                     returnBuffer_return(t, TRUE))
       ELSE timeout /\ PoolStep(St, [th EXCEPT ![t].pc = "ret_end"])

\* if (!ret && allowGrowth) ret = _stack->push(p), which takes a free node or a
\* new one; if (!ret) delete
PoolReturnEnd(t) ==
    /\ th[t].pc = "ret_end"
    /\ IF th[t].flag
       THEN PoolStep(returnBuffer_take(St, th[t].p),
                     [returnBuffer_return(t, TRUE)
                        EXCEPT !["pool"].nodes = IF Len(stack) < @ THEN @ ELSE @ + 1])
       ELSE PoolStep(returnBuffer_delete(St), returnBuffer_return(t, FALSE))

\* setBufferSize(n), alone: the size is raised to n
PoolSetSize(n) ==
    /\ n > bufferSize
    /\ PoolStep([St EXCEPT !.bufferSize = n], th)

NextPool ==
    \/ \E t \in Holders, w \in PoolWaits, allocNew \in BOOLEAN : PoolGetCall(t, w, allocNew)
    \/ \E t \in Holders, timeout \in BOOLEAN : PoolGetWait(t, timeout)
    \/ \E t \in Holders : PoolGetAlloc(t)
    \/ \E t \in Holders : PoolGetTest(t)
    \/ \E t \in Holders : PoolGetResize(t)
    \/ \E t \in Holders, kind \in {"write", "read", "mark"} : PoolUse(t, kind)
    \/ \E t \in Holders, w \in PoolWaits, allowGrowth \in BOOLEAN : PoolReturnCall(t, w, allowGrowth)
    \/ \E t \in Holders : PoolReturnPush(t)
    \/ \E t \in Holders, timeout \in BOOLEAN : PoolReturnWait(t, timeout)
    \/ \E t \in Holders : PoolReturnEnd(t)
    \/ \E n \in PoolSizes : PoolSetSize(n)

SpecPool == InitPool /\ [][NextPool]_vars

\* thread t returns from getBuffer / from returnBuffer in this step
GetReturns(t) == th[t].pc \in {"get_test", "get_resize"} /\ th'[t].pc = "idle"
ReturnReturns(t) == th[t].pc \in {"ret_push", "ret_wait", "ret_end"} /\ th'[t].pc = "idle"

\* C19: a Buffer that getBuffer returns, popped or new, has get = put = mark = 0
\* and a capacity of at least the bufferSize of the moment the call began;
\* getBuffer returns NULL only when allocNew is false and the stack held no
\* Buffer at any pop of the call.
C19_AcquirePostcondition ==
    [][\A t \in Holders : GetReturns(t) =>
          /\ th'[t].hand # NULL =>
                /\ th'[t].hand.get = 0 /\ size(th'[t].hand) = 0 /\ th'[t].hand.mark = 0
                /\ capacity(th'[t].hand) >= th[t].start
          /\ th'[t].hand = NULL => ~th[t].flag /\ ~th[t].seen]_vars

\* a thread holds a Buffer that went through the pool after use and that
\* getBuffer resized, the buffer size having been raised; the other thread's
\* getBuffer returned NULL
C19_Witness ==
    /\ \E t \in Holders :
          /\ th[t].pc = "idle" /\ th[t].op = "get" /\ th[t].resized
          /\ capacity(th[t].hand) > BufSize
          /\ deallocCount = 0 /\ allocCount = 1
    /\ \E t \in Holders : th[t].pc = "idle" /\ th[t].op = "get" /\ th[t].hand = NULL

\* the Buffers owned by a thread (in its hand, or in a call that has it off
\* the stack)
Owned(t) ==
    IF th[t].pc = "idle" THEN (IF th[t].hand # NULL THEN 1 ELSE 0)
    ELSE IF th[t].p # NULL THEN 1 ELSE 0

\* C20: returnBuffer returns true exactly when it has put the Buffer, cleared,
\* on the stack; otherwise it frees the Buffer, adds one to deallocCount, leaves
\* the caller's reference NULL and returns false (so the Buffers allocated and
\* not freed are those on the stack and with the threads); while no returnBuffer
\* has been allowed to grow, the stack holds at most the capacity of the
\* constructor.
C20_ReleaseOutcome ==
    /\ [][\A t \in Holders : ReturnReturns(t) =>
             /\ th'[t].ret <=> \E i \in 1..Len(stack') :
                                  stack'[i].id = th[t].p.id /\ empty_buffer(stack'[i])
             /\ th'[t].ret => deallocCount' = deallocCount /\ Len(stack') = Len(stack) + 1
             /\ ~th'[t].ret => /\ deallocCount' = deallocCount + 1
                               /\ th'[t].p = NULL
                               /\ stack' = stack]_vars
    /\ [](/\ allocCount - deallocCount
                = Len(stack) + Owned("h1") + Owned("h2")
          /\ ~th["pool"].growth => Len(stack) <= PoolCapacity)

\* one returnBuffer has put a used Buffer on the full-by-then stack, the other
\* has found the stack full, freed its Buffer and returned false
C20_Witness ==
    /\ Len(stack) = PoolCapacity
    /\ ~th["pool"].growth
    /\ deallocCount = 1
    /\ \E t, u \in Holders :
          /\ th[t].pc = "idle" /\ th[t].op = "return" /\ th[t].ret
          /\ th[u].pc = "idle" /\ th[u].op = "return" /\ ~th[u].ret /\ th[u].p = NULL

\* ------------------------------------------------------------------ SpecMark: the sinks alone
\* write, setMark and flush on the sinks, setMark also on a sink that has not
\* written yet.

\* what a setMark(flush) call leaves in `last`: the Buffer it found and what it
\* returned
setMark_call(S, e, flush) ==
    [setMark(S, e, flush)
       EXCEPT !.last = [NoOp EXCEPT !.op = "mark", !.e = e, !.ret = setMarkRet(S.ep[e].buf),
                                    !.pre = S.ep[e].buf]]

\* setMark on a sink that has not written, in a build that checks assertions:
\* assert(_writeOnly) ends the process
setMark_asserts(S, e) ==
    [S EXCEPT !.aborted = TRUE, !.last = [NoOp EXCEPT !.op = "mark", !.e = e,
                                                     !.pre = S.ep[e].buf]]

\* os.setMark() on sink e
MarkCall(e, asserts) ==
    /\ ~aborted /\ ep[e].open /\ ops < MaxOps
    /\ asserts \in Builds
    /\ IF ~ep[e].writeOnly /\ asserts
       THEN Commit(setMark_asserts(St, e))
       ELSE Commit(setMark_call(St, e, FALSE))
    /\ ndebug' = (ndebug \/ (~ep[e].writeOnly /\ ~asserts))
    /\ ops' = ops + 1
    /\ UNCHANGED <<bufVars, th>>

NextMark ==
    \/ \E e \in Sinks, n \in WriteLens : Write(e, n)
    \/ \E e \in Sinks, asserts \in BOOLEAN : MarkCall(e, asserts)
    \/ \E e \in Sinks : Flush(e)

SpecMark == Init /\ [][NextMark]_vars

\* sink e's setMark is called in this step with no byte written since its last mark
EmptyMark(e) ==
    /\ ops' = ops + 1 /\ last'.op = "mark" /\ last'.e = e
    /\ markRemainder(ep[e].buf) = 0

\* C21: a setMark(false) called with no bytes written since the previous mark
\* returns 0 and does not overflow: nothing is pushed and the in-flight Buffer
\* stays.
C21_EmptyMarkIsNoOp ==
    [][\A e \in Sinks : EmptyMark(e) =>
          /\ ~aborted'
          /\ last'.ret = 0
          /\ queue' = queue /\ pushed' = pushed
          /\ ep'[e].buf = ep[e].buf]_vars

\* ------------------------------------------------------------------ SpecConserve: the pipeline and BufferPool::clear
\* The pipeline of Spec beside a thread that empties the pool
\* (bfifo.getBufferPool().clear()).

\* a faulty clear that frees without counting (C26 is tested against it)
BufferPool_clear_uncounted(S) == [S EXCEPT !.stack = <<>>]
\* BufferPool::clear(): every Buffer popped from the stack is deleted and counted
BufferPool_clear(S) == [S EXCEPT !.stack = <<>>, !.deallocCount = @ + Len(S.stack)]

\* getBufferPool().clear(), called with Buffers in the pool
PoolClear ==
    /\ ~aborted /\ ops < MaxOps
    /\ stack # <<>>
    /\ Commit([BufferPool_clear(St) EXCEPT !.last = [NoOp EXCEPT !.op = "clear",
                                                                 !.n = Len(stack)]])
    /\ ops' = ops + 1
    /\ UNCHANGED <<ndebug, bufVars, th>>

NextConserve ==
    \/ \E e \in Sinks, n \in WriteLens : Write(e, n)
    \/ \E e \in Sinks : Mark(e)
    \/ \E e \in Sinks : Flush(e)
    \/ \E e \in Sources, n \in ReadLens : Read(e, n)
    \/ \E e \in Sources : IsReady(e)
    \/ \E e \in Endpoints : Close(e)
    \/ SetEOF
    \/ PoolClear

SpecConserve == Init /\ [][NextConserve]_vars

\* the Buffers that exist: those in a place
LiveIds == {x[3] : x \in Places}

\* C26: allocCount - deallocCount is the number of Buffers on the pool stack plus
\* those in the FIFO queue plus those held by endpoints; every Buffer ever
\* allocated and no longer anywhere has been counted in deallocCount, once.
C26_BufferConservation ==
    /\ allocCount - deallocCount
         = Len(stack) + Len(queue) + Cardinality({e \in Endpoints : ep[e].buf # NULL})
    /\ LiveIds \subseteq 1..allocCount
    /\ Cardinality((1..allocCount) \ LiveIds) = deallocCount

\* the pool has been cleared of Buffers, a returnBuffer before that found the
\* stack full and freed its Buffer, and Buffers are in the queue and with
\* endpoints
C26_Witness ==
    /\ last.op = "clear" /\ last.n > 0
    /\ deallocCount > last.n
    /\ queue # <<>>
    /\ \E e \in Endpoints : ep[e].open

====
